---- MODULE Spec2Model ----
(***************************************************************************)
(* Model of hack/helm-reference-gen/main.go: the builder that turns a      *)
(* yaml.v3 node tree into a DocNode tree (Parse, parseNodeContent,          *)
(* buildDocNode) and the renderer (generateDocsFromNode, GenerateDocs).     *)
(*                                                                          *)
(* Strings are sequences of tokens (one character, or one opaque piece of  *)
(* text), so that concatenation, prefix trimming and lower-casing are      *)
(* computed and not assumed.  yaml tags are opaque tokens.  DocNode.Column *)
(* is copied verbatim from the yaml node and is left out.  The methods of  *)
(* DocNode (HTMLAnchor, Validate, Kind) live outside main.go and follow    *)
(* the design document; yaml.Marshal is modelled by its output for a flow  *)
(* sequence of plain scalars.                                               *)
(***************************************************************************)
EXTENDS Integers, Sequences, FiniteSets, TLC

VARIABLES doc, pc, parsed, generated

vars == <<doc, pc, parsed, generated>>

\* Most pairs of a root mapping made of scalar values only.
MaxPairs == 2

\* Most elements of a sequence.
MaxLen == 3

\* Most pairs of a mapping nested inside a value.
MaxInnerPairs == 2

----------------------------------------------------------------------------
(* yaml.v3 nodes as Parse receives them: Kind, Value, Tag, HeadComment,     *)
(* Content.  A head comment is a sequence of lines, a line a sequence of   *)
(* tokens.                                                                  *)

ScalarNode == "ScalarNode"

MappingNode == "MappingNode"

SequenceNode == "SequenceNode"

AliasNode == "AliasNode"

NoComment == <<>>

RecurseFalseComment == << <<"# ", "@recurse: ", "false">> >>

RecurseTrueComment == << <<"# ", "doc">>, <<"# ", "@recurse: ", "true">> >>

ScalarTag(v) == IF v = <<"1">> THEN "!!int" ELSE "!!str"

Scalar(v, c) ==
    [Kind |-> ScalarNode, Value |-> v, Tag |-> ScalarTag(v),
     HeadComment |-> c, Content |-> <<>>]

Mapping(content) ==
    [Kind |-> MappingNode, Value |-> <<>>, Tag |-> "!!map",
     HeadComment |-> NoComment, Content |-> content]

Sequence(content) ==
    [Kind |-> SequenceNode, Value |-> <<>>, Tag |-> "!!seq",
     HeadComment |-> NoComment, Content |-> content]

Alias ==
    [Kind |-> AliasNode, Value |-> <<"x">>, Tag |-> "",
     HeadComment |-> NoComment, Content |-> <<>>]

----------------------------------------------------------------------------
(* The input documents.                                                     *)

\* Scalars in key position.
KeyScalars ==
    {Scalar(v, c) : v \in {<<"a">>, <<"A">>, <<"1">>},
                    c \in {NoComment, RecurseFalseComment}}
    \cup {Scalar(<<"a">>, RecurseTrueComment), Scalar(<<>>, NoComment)}

\* Leaves in mapping-value position.
ValueLeaves == {Scalar(<<"a">>, NoComment), Scalar(<<"1">>, NoComment), Alias}

\* All sequences of at most n members of S.
SeqsUpTo(S, n) == UNION {[1..k -> S] : k \in 0..n}

\* The key/value contents of at most n pairs, keys from K and values from V.
RECURSIVE PairsUpTo(_, _, _)
PairsUpTo(K, V, n) ==
    IF n = 0 THEN {<<>>}
    ELSE {<<>>} \cup {<<k, v>> \o rest :
                        k \in K, v \in V, rest \in PairsUpTo(K, V, n - 1)}

InnerKeys ==
    {Scalar(<<"a">>, NoComment), Scalar(<<"A">>, NoComment),
     Scalar(<<"b">>, NoComment), Scalar(<<"b">>, RecurseFalseComment)}

\* Mappings nested inside a value: scalar values only.
InnerMaps ==
    {Mapping(c) : c \in PairsUpTo(InnerKeys, {Scalar(<<"1">>, NoComment)},
                                  MaxInnerPairs)}

\* Elements of a sequence.
Elems ==
    {Scalar(<<"a">>, NoComment), Scalar(<<"1">>, NoComment),
     Scalar(<<"a">>, RecurseFalseComment),
     Mapping(<<>>),
     Mapping(<<Scalar(<<"a">>, NoComment), Scalar(<<"1">>, NoComment)>>),
     Sequence(<<Scalar(<<"a">>, NoComment), Scalar(<<"1">>, NoComment)>>)}

Seqs == {Sequence(c) : c \in SeqsUpTo(Elems, MaxLen)}

\* Values with one more level of nesting.
DeepValues ==
    {Mapping(<<Scalar(<<"a">>, NoComment), m>>) : m \in InnerMaps}
    \cup {Mapping(<<Scalar(<<"a">>, NoComment), Sequence(<<m>>)>>) : m \in InnerMaps}

Values == ValueLeaves \cup InnerMaps \cup Seqs \cup DeepValues

\* Root mappings of scalar values.
FlatDocs == {Mapping(c) : c \in PairsUpTo(KeyScalars, ValueLeaves, MaxPairs)}

\* Root sequences.
SeqDocs == Seqs

EarlierPairs ==
    {<<>>, <<Scalar(<<"1">>, NoComment), Scalar(<<"a">>, NoComment)>>}

LaterPairs ==
    {<<>>, <<Scalar(<<"b">>, NoComment), Scalar(<<"a">>, NoComment)>>,
     <<Scalar(<<"A">>, NoComment), Scalar(<<"1">>, NoComment)>>}

\* Root mappings with one key of any value, between scalar pairs.
NestedDocs ==
    {Mapping(pre \o <<k, v>> \o post) :
        pre \in EarlierPairs,
        k \in {Scalar(<<"a">>, NoComment), Scalar(<<"a">>, RecurseFalseComment)},
        v \in Values,
        post \in LaterPairs}

\* The root nodes of the input documents (node.Content[0] of line 90).
Docs == FlatDocs \cup SeqDocs \cup NestedDocs

----------------------------------------------------------------------------
(* Strings.                                                                 *)

HasPrefix(s, prefix) ==
    /\ Len(prefix) <= Len(s)
    /\ SubSeq(s, 1, Len(prefix)) = prefix

\* strings.TrimPrefix
TrimPrefix(s, prefix) ==
    IF HasPrefix(s, prefix) THEN SubSeq(s, Len(prefix) + 1, Len(s)) ELSE s

\* strings.Join
RECURSIVE Join(_, _)
Join(elems, sep) ==
    IF Len(elems) = 0 THEN <<>>
    ELSE IF Len(elems) = 1 THEN elems[1]
    ELSE elems[1] \o sep \o Join(Tail(elems), sep)

----------------------------------------------------------------------------
(* DocNode, its methods and ParseError.                                     *)

DocNode(parentBreadcrumb, parentWasMap, key, comment, kindTag, default, children) ==
    [ParentBreadcrumb |-> parentBreadcrumb, ParentWasMap |-> parentWasMap,
     Key |-> key, Comment |-> comment, KindTag |-> kindTag,
     Default |-> default, Children |-> children]

\* DocNode{}
ZeroDocNode == DocNode(<<>>, FALSE, <<>>, <<>>, "", <<>>, <<>>)

NoError ==
    [Type |-> "nil", ParentAnchor |-> <<>>, CurrAnchor |-> <<>>,
     FullAnchor |-> <<>>, Err |-> ""]

ParseError(parentAnchor, currAnchor, fullAnchor, err) ==
    [Type |-> "ParseError", ParentAnchor |-> parentAnchor,
     CurrAnchor |-> currAnchor, FullAnchor |-> fullAnchor, Err |-> err]

\* fmt.Errorf
Errorf(err, breadcrumb) ==
    [Type |-> "error", ParentAnchor |-> breadcrumb, CurrAnchor |-> <<>>,
     FullAnchor |-> <<>>, Err |-> err]

ToLower(c) == IF c = "A" THEN "a" ELSE c

IsAlphanumeric(c) == c \in {"a", "A", "b", "1", "x"}

\* A key in URL-anchor form: lower-cased, anything but letters and digits
\* replaced by the separator.
SanitizeKey(key) ==
    [i \in 1..Len(key) |-> IF IsAlphanumeric(key[i]) THEN ToLower(key[i]) ELSE "-"]

\* DocNode.HTMLAnchor: the parent breadcrumb, the separator, the key.
HTMLAnchor(n) == n.ParentBreadcrumb \o <<"-">> \o SanitizeKey(n.Key)

\* recurseAnnotation.FindStringSubmatch(comment): the first line holding the
\* directive, and what follows the directive up to the end of that line.
RECURSIVE FindRecurseSubmatch(_)
FindRecurseSubmatch(comment) ==
    IF Len(comment) = 0 THEN <<>>
    ELSE LET line == comment[1]
             at   == {i \in 1..Len(line) : line[i] = "@recurse: "}
         IN  IF at = {} THEN FindRecurseSubmatch(Tail(comment))
             ELSE LET last == CHOOSE i \in at : \A j \in at : j <= i
                  IN  <<line, SubSeq(line, last + 1, Len(line))>>

\* Variant: the directive's value is compared with "true".
recurseIsFalse_ComparesTrue(comment) ==
    LET match == FindRecurseSubmatch(comment)
    IN  Len(match) > 0 /\ match[2] = <<"true">>

\* The test of line 210.
recurseIsFalse(comment) ==
    LET match == FindRecurseSubmatch(comment)
    IN  Len(match) > 0 /\ match[2] = <<"false">>

\* DocNode.Validate, given the siblings accepted before the node: a key is
\* present unless recursion was stopped, the anchor is new among the
\* siblings, and a node with children carries no default.
Validate(n, accepted) ==
    IF n.Key = <<>> /\ ~recurseIsFalse(n.Comment) THEN "key is empty"
    ELSE IF \E i \in 1..Len(accepted) : HTMLAnchor(accepted[i]) = HTMLAnchor(n)
         THEN "anchor is not unique"
    ELSE IF n.Children # <<>> /\ n.Default # <<>> THEN "container with a default"
    ELSE ""

----------------------------------------------------------------------------
(* allScalars and toInlineYaml.                                             *)

allScalars(content) ==
    \A i \in 1..Len(content) :
        ~(content[i].Kind # ScalarNode \/ Len(content[i].Content) > 0)

\* yaml.Marshal of intermediary{Arr: content}: the key, the flow sequence of
\* the scalars' text, the line feed that ends the document.
MarshalIntermediary(content) ==
    <<"a", "r", "r", ":", " ">>
    \o <<"[">>
    \o Join([i \in 1..Len(content) |-> content[i].Value], <<",", " ">>)
    \o <<"]">>
    \o <<"\n">>

toInlineYaml(content) ==
    TrimPrefix(MarshalIntermediary(content), <<"a", "r", "r", ":", " ">>)

----------------------------------------------------------------------------
(* parseNodeContent and buildDocNode.  A call returns the nodes (or node),  *)
(* the error, whether it panicked, and the keys of the buildDocNode calls   *)
(* made, in order.                                                          *)

Result(docNodes, err, panic, built) ==
    [docNodes |-> docNodes, err |-> err, panic |-> panic, built |-> built]

Failed(r) == r.panic \/ r.err.Type # "nil"

RECURSIVE parseNodeContent(_, _, _)
RECURSIVE parseLoop(_, _, _, _, _, _, _)
RECURSIVE buildDocNode(_, _, _, _, _)
RECURSIVE buildMapping(_, _, _, _)
RECURSIVE buildSequence(_, _, _, _)

\* Lines 210-218.
recurseStopNode(currNode, parentBreadcrumb) ==
    DocNode(parentBreadcrumb, FALSE, currNode.Value, currNode.HeadComment,
            "", <<>>, <<>>)

\* Variant: the default is taken from the key node.
scalarDocNode_DefaultFromKey(currNode, next, parentBreadcrumb, parentWasMap) ==
    DocNode(parentBreadcrumb, parentWasMap, currNode.Value,
            currNode.HeadComment, next.Tag, currNode.Value, <<>>)

\* Lines 234-243.
scalarDocNode(currNode, next, parentBreadcrumb, parentWasMap) ==
    DocNode(parentBreadcrumb, parentWasMap, currNode.Value,
            currNode.HeadComment, next.Tag, next.Value, <<>>)

\* Variant: the children get the parent's breadcrumb, not the node's anchor.
buildMapping_PassesParentBreadcrumb(currNode, next, parentBreadcrumb, parentWasMap) ==
    LET docNode == DocNode(parentBreadcrumb, parentWasMap, currNode.Value,
                           currNode.HeadComment, next.Tag, <<>>, <<>>)
        r == parseNodeContent(next.Content, parentBreadcrumb, FALSE)
    IN  IF Failed(r) THEN Result(ZeroDocNode, r.err, r.panic, r.built)
        ELSE Result([docNode EXCEPT !.Children = r.docNodes], NoError, FALSE,
                    r.built)

\* Lines 246-260.
buildMapping(currNode, next, parentBreadcrumb, parentWasMap) ==
    LET docNode == DocNode(parentBreadcrumb, parentWasMap, currNode.Value,
                           currNode.HeadComment, next.Tag, <<>>, <<>>)
        r == parseNodeContent(next.Content, HTMLAnchor(docNode), FALSE)
    IN  IF Failed(r) THEN Result(ZeroDocNode, r.err, r.panic, r.built)
        ELSE Result([docNode EXCEPT !.Children = r.docNodes], NoError, FALSE,
                    r.built)

\* Variant: without the allScalars branch, every non-empty sequence recurses.
buildSequence_NoScalarBranch(currNode, next, parentBreadcrumb, parentWasMap) ==
    IF Len(next.Content) = 0
    THEN Result(DocNode(parentBreadcrumb, parentWasMap, currNode.Value,
                        currNode.HeadComment, next.Tag, <<"[", "]">>, <<>>),
                NoError, FALSE, <<>>)
    ELSE LET docNode == DocNode(parentBreadcrumb, parentWasMap, currNode.Value,
                                currNode.HeadComment, next.Tag, <<>>, <<>>)
             r == parseNodeContent(next.Content, HTMLAnchor(docNode), FALSE)
         IN  IF Failed(r) THEN Result(ZeroDocNode, r.err, r.panic, r.built)
             ELSE Result([docNode EXCEPT !.Children = r.docNodes], NoError,
                         FALSE, r.built)

\* Lines 264-316.
buildSequence(currNode, next, parentBreadcrumb, parentWasMap) ==
    IF Len(next.Content) = 0
    THEN Result(DocNode(parentBreadcrumb, parentWasMap, currNode.Value,
                        currNode.HeadComment, next.Tag, <<"[", "]">>, <<>>),
                NoError, FALSE, <<>>)
    ELSE IF allScalars(next.Content)
    THEN Result(DocNode(parentBreadcrumb, parentWasMap, currNode.Value,
                        currNode.HeadComment, next.Tag,
                        toInlineYaml(next.Content), <<>>),
                NoError, FALSE, <<>>)
    ELSE LET docNode == DocNode(parentBreadcrumb, parentWasMap, currNode.Value,
                                currNode.HeadComment, next.Tag, <<>>, <<>>)
             r == parseNodeContent(next.Content, HTMLAnchor(docNode), FALSE)
         IN  IF Failed(r) THEN Result(ZeroDocNode, r.err, r.panic, r.built)
             ELSE Result([docNode EXCEPT !.Children = r.docNodes], NoError,
                         FALSE, r.built)

\* Lines 207-319.  nodeContentIdx counts from 0 as in the source; the
\* sequences of the model count from 1.
buildDocNode(nodeContentIdx, currNode, nodeContent, parentBreadcrumb, parentWasMap) ==
    IF recurseIsFalse(currNode.HeadComment)
    THEN Result(recurseStopNode(currNode, parentBreadcrumb), NoError, FALSE, <<>>)
    ELSE IF Len(nodeContent) < nodeContentIdx + 1
    THEN Result(ZeroDocNode,
                ParseError(parentBreadcrumb, currNode.Value, <<>>,
                           "content length incorrect"),
                FALSE, <<>>)
    \* nodeContent[nodeContentIdx+1] past the end: index out of range.
    ELSE IF ~(nodeContentIdx + 1 < Len(nodeContent))
    THEN Result(ZeroDocNode, NoError, TRUE, <<>>)
    ELSE LET next == nodeContent[nodeContentIdx + 2]
         IN  CASE next.Kind = ScalarNode ->
                    Result(scalarDocNode(currNode, next, parentBreadcrumb,
                                         parentWasMap), NoError, FALSE, <<>>)
               [] next.Kind = MappingNode ->
                    buildMapping(currNode, next, parentBreadcrumb, parentWasMap)
               [] next.Kind = SequenceNode ->
                    buildSequence(currNode, next, parentBreadcrumb, parentWasMap)
               [] OTHER ->
                    Result(ZeroDocNode,
                           Errorf("fell through cases unexpectedly", parentBreadcrumb),
                           FALSE, <<>>)

\* Variant: the node is accepted without validation.
validateStep_Skipped(docNode, docNodes) == NoError

\* Lines 139-144: the node is validated and a failure is wrapped.
validateStep(docNode, docNodes) ==
    LET err == Validate(docNode, docNodes)
    IN  IF err # "" THEN ParseError(<<>>, <<>>, HTMLAnchor(docNode), err)
        ELSE NoError

\* Lines 127-150: the loop from element i (counted from 0) on.
parseLoop(nodeContent, parentBreadcrumb, parentWasMap, i, skipNext, docNodes, built) ==
    IF i >= Len(nodeContent) THEN Result(docNodes, NoError, FALSE, built)
    ELSE IF skipNext
    THEN parseLoop(nodeContent, parentBreadcrumb, parentWasMap, i + 1, FALSE,
                   docNodes, built)
    ELSE LET child == nodeContent[i + 1]
             b == buildDocNode(i, child, nodeContent, parentBreadcrumb, parentWasMap)
             now == Append(built, <<parentBreadcrumb, i, child.Value>>) \o b.built
         IN  IF Failed(b) THEN Result(<<>>, b.err, b.panic, now)
             ELSE LET verr == validateStep(b.docNodes, docNodes)
                  IN  IF verr.Type # "nil" THEN Result(<<>>, verr, FALSE, now)
                      ELSE parseLoop(nodeContent, parentBreadcrumb, parentWasMap,
                                     i + 1, TRUE, Append(docNodes, b.docNodes), now)

\* Lines 103-151.
parseNodeContent(nodeContent, parentBreadcrumb, parentWasMap) ==
    IF Len(nodeContent) = 1
    THEN parseNodeContent(nodeContent[1].Content, parentBreadcrumb, TRUE)
    ELSE parseLoop(nodeContent, parentBreadcrumb, parentWasMap, 0, FALSE, <<>>, <<>>)

\* Lines 82-99, from the unmarshalled root node on.
Parse(root) ==
    LET r == parseNodeContent(root.Content, <<>>, FALSE)
    IN  IF r.panic THEN [node |-> ZeroDocNode, err |-> NoError, panic |-> TRUE,
                         built |-> r.built]
        ELSE IF r.err.Type # "nil"
        THEN [node |-> ZeroDocNode, err |-> r.err, panic |-> FALSE, built |-> r.built]
        ELSE [node |-> [ZeroDocNode EXCEPT !.Children = r.docNodes],
              err |-> NoError, panic |-> FALSE, built |-> r.built]

----------------------------------------------------------------------------
(* The renderer.                                                            *)

\* DocNode.Kind as the template uses it.
Kind(n) == IF n.KindTag = "!!map" THEN "map" ELSE n.KindTag

\* docNodeTmpl executed on a node (line 53): key, anchor, and the kind and
\* default unless the node is a map.  The backquote is written $, as in the
\* template's source text.
Execute(n) ==
    <<"- $">> \o n.Key \o <<"$ ((#v">> \o HTMLAnchor(n) \o <<"))">>
    \o (IF Kind(n) # "map"
        THEN <<" ($", Kind(n)>>
             \o (IF n.Default # <<>> THEN <<": ">> \o n.Default ELSE <<>>)
             \o <<"$)">>
        ELSE <<>>)

\* Lines 153-168: the records of the node's descendants.
RECURSIVE generateDocsFromNode(_)
RECURSIVE generateLoop(_, _, _)
RECURSIVE generateLoop_ChildrenFirst(_, _, _)
\* Variant: a node's record is appended after the records of its children.
generateLoop_ChildrenFirst(children, i, out) ==
    IF i > Len(children) THEN out
    ELSE LET nodeOut == Execute(children[i])
             childOut == generateDocsFromNode(children[i])
         IN  generateLoop_ChildrenFirst(children, i + 1,
                                        Append(out \o childOut, nodeOut))

generateLoop(children, i, out) ==
    IF i > Len(children) THEN out
    ELSE LET nodeOut == Execute(children[i])
             childOut == generateDocsFromNode(children[i])
         IN  generateLoop(children, i + 1, Append(out, nodeOut) \o childOut)

generateDocsFromNode(node) == generateLoop(node.Children, 1, <<>>)

\* strings.ReplaceAll of one token.
ReplaceAll(text, old, new) ==
    [i \in 1..Len(text) |-> IF text[i] = old THEN new ELSE text[i]]

\* Lines 71-79, from the unmarshalled root node on.  records is the list of
\* line 77 before it is joined.
GenerateDocs(root) ==
    LET p == Parse(root)
    IN  IF p.panic THEN [text |-> <<>>, records |-> <<>>, err |-> NoError, panic |-> TRUE]
        ELSE IF p.err.Type # "nil"
        THEN [text |-> <<>>, records |-> <<>>, err |-> p.err, panic |-> FALSE]
        ELSE LET children == generateDocsFromNode(p.node)
             IN  [text |-> ReplaceAll(Join(children, <<"\n\n">>), "[Enterprise Only]",
                                      "<EnterpriseAlert inline />"),
                  records |-> children,
                  err |-> NoError, panic |-> FALSE]

----------------------------------------------------------------------------
(* The program: a document is parsed, or parsed and rendered.               *)

NoResult == <<>>

Init ==
    /\ doc \in Docs
    /\ pc = "start"
    /\ parsed = NoResult
    /\ generated = NoResult

CallParse ==
    /\ pc = "start"
    /\ parsed' = Parse(doc)
    /\ pc' = "parsed"
    /\ UNCHANGED <<doc, generated>>

CallGenerateDocs ==
    /\ pc = "start"
    /\ generated' = GenerateDocs(doc)
    /\ parsed' = Parse(doc)
    /\ pc' = "generated"
    /\ UNCHANGED doc

Next == CallParse \/ CallGenerateDocs

Spec == Init /\ [][Next]_vars

----------------------------------------------------------------------------
(* Vocabulary of the properties.                                            *)

Returned == pc # "start"

ParseOk == Returned /\ ~parsed.panic /\ parsed.err.Type = "nil"

\* The comment holds the directive "@recurse: false" on some line.
CarriesRecurseFalse(comment) ==
    \E l \in 1..Len(comment) :
        \E i \in 1..(Len(comment[l]) - 1) :
            /\ comment[l][i] = "@recurse: "
            /\ SubSeq(comment[l], i + 1, Len(comment[l])) = <<"false">>

\* The comment holds no @recurse directive at all.
NoRecurseDirective(comment) ==
    \A l \in 1..Len(comment) : \A i \in 1..Len(comment[l]) :
        comment[l][i] # "@recurse: "

RECURSIVE Descendants(_)
Descendants(n) ==
    UNION {{n.Children[i]} \cup Descendants(n.Children[i]) : i \in 1..Len(n.Children)}

\* The buildDocNode calls made on the root content, in order: the indices.
RECURSIVE RootCalls(_)
RootCalls(built) ==
    IF built = <<>> THEN <<>>
    ELSE IF built[1][1] = <<>> THEN <<built[1][2]>> \o RootCalls(Tail(built))
    ELSE RootCalls(Tail(built))

\* 0-based index i of the root content holds a key the build reached.
Reached(i) == \E p \in 1..Len(parsed.built) : parsed.built[p] = <<<<>>, i, doc.Content[i + 1].Value>>

LowerCased(key) == [i \in 1..Len(key) |-> IF key[i] = "A" THEN "a" ELSE key[i]]

----------------------------------------------------------------------------
\* C1: a root content of odd length (three or more) whose trailing key has no
\* @recurse: false annotation makes the build return a ParseError that names
\* the parent breadcrumb and the trailing key.
C1_OddContentReturnsPairingError ==
    LET n == Len(doc.Content)
    IN  (/\ Returned
         /\ n >= 3 /\ n % 2 = 1
         /\ ~CarriesRecurseFalse(doc.Content[n].HeadComment)
         /\ Reached(n - 1))
        => /\ ~parsed.panic
           /\ parsed.err.Type = "ParseError"
           /\ parsed.err.ParentAnchor = <<>>
           /\ parsed.err.CurrAnchor = doc.Content[n].Value

----------------------------------------------------------------------------
SiblingsDistinct(n) ==
    \A i, j \in 1..Len(n.Children) :
        i # j => HTMLAnchor(n.Children[i]) # HTMLAnchor(n.Children[j])

\* Keys i < j of the root mapping (0-based positions) have the same anchor
\* and the build reached both.
Collide(i, j) ==
    /\ i % 2 = 0 /\ j % 2 = 0 /\ i < j
    /\ LowerCased(doc.Content[i + 1].Value) = LowerCased(doc.Content[j + 1].Value)
    /\ Reached(i) /\ Reached(j)

CollidingRootKeys ==
    /\ doc.Kind = MappingNode
    /\ \E i, j \in 0..(Len(doc.Content) - 1) : Collide(i, j)

----------------------------------------------------------------------------
\* C3: a key annotated @recurse: false yields a terminal node (no children,
\* empty kindTag, empty default) whatever its value is; the value is not
\* descended into, and it is consumed, so that the next call builds the
\* following key.
C3_RecurseFalseIsTerminal ==
    Returned =>
        \A i \in 0..(Len(doc.Content) - 1) :
            (Len(doc.Content) > 1 /\ Reached(i)
             /\ CarriesRecurseFalse(doc.Content[i + 1].HeadComment)) =>
                LET r == buildDocNode(i, doc.Content[i + 1], doc.Content, <<>>, FALSE)
                    calls == RootCalls(parsed.built)
                IN  /\ ~Failed(r)
                    /\ r.built = <<>>
                    /\ r.docNodes.Key = doc.Content[i + 1].Value
                    /\ r.docNodes.Children = <<>>
                    /\ r.docNodes.KindTag = ""
                    /\ r.docNodes.Default = <<>>
                    /\ \A p \in 1..Len(parsed.built) :
                        parsed.built[p] = <<<<>>, i, doc.Content[i + 1].Value>> =>
                            (p < Len(parsed.built) =>
                                parsed.built[p + 1][1] = <<>> /\ parsed.built[p + 1][2] = i + 2)
                    /\ \A q \in 1..Len(calls) : calls[q] # i + 1
                    /\ ParseOk => parsed.node.Children[(i \div 2) + 1] = r.docNodes

C3_Witness ==
    /\ pc = "parsed"
    /\ ParseOk
    /\ Len(doc.Content) = 4
    /\ CarriesRecurseFalse(doc.Content[1].HeadComment)
    /\ doc.Content[2].Kind = SequenceNode
    /\ Len(doc.Content[2].Content) = 2
    /\ ~allScalars(doc.Content[2].Content)
    /\ Len(parsed.node.Children) = 2
    /\ parsed.node.Children[2].Key = doc.Content[3].Value

----------------------------------------------------------------------------
BuildFailed == Returned /\ (parsed.panic \/ parsed.err.Type # "nil")

\* C4: a failed build returns an error with an empty DocNode from Parse and
\* an error with empty text from GenerateDocs.
C4_FailureReturnsErrorAndNothingElse ==
    /\ BuildFailed =>
        /\ ~parsed.panic
        /\ parsed.err.Type # "nil"
        /\ parsed.node = ZeroDocNode
    /\ (BuildFailed /\ pc = "generated") =>
        /\ ~generated.panic
        /\ generated.err.Type # "nil"
        /\ generated.text = <<>>

----------------------------------------------------------------------------
(* Root mappings: pair m (from 1) is key Content[2m-1], value Content[2m].  *)

RootPairs == Len(doc.Content) \div 2

RootKey(m) == doc.Content[2 * m - 1]

RootValue(m) == doc.Content[2 * m]

\* Every key of the root mapping maps to a scalar and has no @recurse
\* directive.
FlatScalarDoc ==
    /\ doc.Kind = MappingNode
    /\ RootPairs >= 1
    /\ \A m \in 1..RootPairs :
        /\ NoRecurseDirective(RootKey(m).HeadComment)
        /\ RootValue(m).Kind = ScalarNode

\* One node and one record per key, in document order.
OneRecordPerKey ==
    /\ ParseOk
    /\ Len(parsed.node.Children) = RootPairs
    /\ \A m \in 1..RootPairs :
        /\ parsed.node.Children[m].Key = RootKey(m).Value
        /\ parsed.node.Children[m].Default = RootValue(m).Value
        /\ parsed.node.Children[m].KindTag = RootValue(m).Tag
        /\ parsed.node.Children[m].Children = <<>>
    /\ pc = "generated" =>
        /\ ~generated.panic
        /\ generated.err.Type = "nil"
        /\ Len(generated.records) = RootPairs
        /\ \A m \in 1..RootPairs :
            HasPrefix(generated.records[m],
                      <<"- $">> \o RootKey(m).Value
                      \o <<"$ ((#v", "-">> \o LowerCased(RootKey(m).Value))

KeysValid ==
    /\ \A m \in 1..RootPairs : RootKey(m).Value # <<>>
    /\ \A m, n \in 1..RootPairs :
        m # n => LowerCased(RootKey(m).Value) # LowerCased(RootKey(n).Value)

----------------------------------------------------------------------------
FlowRendering(content) ==
    <<"[">> \o Join([i \in 1..Len(content) |-> content[i].Value], <<",", " ">>)
    \o <<"]">>

\* C6: a key of the root mapping paired with a sequence of scalars only is a
\* leaf whose default is "[]" for the empty sequence and otherwise the flow
\* rendering of the elements in order, "[e1, e2, ...]".
C6_ScalarSequenceDefaultIsFlowRendering ==
    (ParseOk /\ doc.Kind = MappingNode) =>
        \A m \in 1..RootPairs :
            (/\ ~CarriesRecurseFalse(RootKey(m).HeadComment)
             /\ RootValue(m).Kind = SequenceNode
             /\ \A i \in 1..Len(RootValue(m).Content) :
                    RootValue(m).Content[i].Kind = ScalarNode) =>
                /\ parsed.node.Children[m].Children = <<>>
                /\ parsed.node.Children[m].Default = FlowRendering(RootValue(m).Content)

----------------------------------------------------------------------------
RECURSIVE Paths(_)
Paths(n) ==
    UNION {{<<i>>} \cup {<<i>> \o p : p \in Paths(n.Children[i])} :
            i \in 1..Len(n.Children)}

RECURSIVE NodeAt(_, _)
NodeAt(n, p) ==
    IF Len(p) = 1 THEN n.Children[p[1]] ELSE NodeAt(n.Children[p[1]], Tail(p))

\* p comes before q: p is an ancestor of q, or p branches off to the left.
Before(p, q) ==
    \/ Len(p) < Len(q) /\ SubSeq(q, 1, Len(p)) = p
    \/ \E k \in 1..Len(p) :
        /\ k <= Len(q)
        /\ SubSeq(p, 1, k - 1) = SubSeq(q, 1, k - 1)
        /\ p[k] < q[k]

\* C7: the records are the pre-order listing of the tree without its root:
\* one record per node, a node before its descendants, and a node's whole
\* subtree before its next sibling.
C7_RecordsArePreOrder ==
    (pc = "generated" /\ ParseOk) =>
        LET tree == parsed.node
            paths == Paths(tree)
        IN  /\ ~generated.panic /\ generated.err.Type = "nil"
            /\ Len(generated.records) = Cardinality(paths)
            /\ \A p \in paths :
                generated.records[1 + Cardinality({q \in paths : Before(q, p)})]
                    = Execute(NodeAt(tree, p))

C7_Witness ==
    /\ pc = "generated" /\ ParseOk
    /\ Len(parsed.node.Children) = 3
    /\ Len(parsed.node.Children[2].Children) = 1
    /\ Len(parsed.node.Children[2].Children[1].Children) = 2
    /\ Len(generated.records) = 6

----------------------------------------------------------------------------
RECURSIVE KeysOf(_)
KeysOf(content) ==
    IF Len(content) < 2 THEN <<>>
    ELSE <<content[1].Value>> \o KeysOf(Tail(Tail(content)))

RECURSIVE ElementKeys(_)
ElementKeys(elements) ==
    IF elements = <<>> THEN <<>>
    ELSE KeysOf(elements[1].Content) \o ElementKeys(Tail(elements))

SequenceOfMappings ==
    /\ doc.Kind = MappingNode
    /\ RootPairs = 1
    /\ NoRecurseDirective(RootKey(1).HeadComment)
    /\ RootValue(1).Kind = SequenceNode
    /\ Len(RootValue(1).Content) >= 1
    /\ \A i \in 1..Len(RootValue(1).Content) :
        RootValue(1).Content[i].Kind = MappingNode
    /\ LET keys == ElementKeys(RootValue(1).Content)
       IN  \A i, j \in 1..Len(keys) : i # j => LowerCased(keys[i]) # LowerCased(keys[j])

\* C8: a key paired with a sequence of mappings gets, under its container
\* node, one node per key of every element, whatever the length of the
\* sequence.
C8_EveryElementContributesItsKeys ==
    (Returned /\ SequenceOfMappings) =>
        /\ ParseOk
        /\ Len(parsed.node.Children) = 1
        /\ [i \in 1..Len(parsed.node.Children[1].Children) |->
                parsed.node.Children[1].Children[i].Key]
             = ElementKeys(RootValue(1).Content)

----------------------------------------------------------------------------
Uniform(content) == \A i \in 1..Len(content) : content[i].Kind = ScalarNode

\* C9: a node with children has the tag of a mapping or of a sequence, no
\* @recurse: false annotation and an empty default; at the root, it was built
\* from a mapping or from a sequence with a non-scalar element, and the nodes
\* built from a scalar, an empty sequence, a sequence of scalars or under
\* @recurse: false have no children.
C9_OnlyContainersHaveChildren ==
    ParseOk =>
        /\ \A n \in Descendants(parsed.node) :
            n.Children # <<>> =>
                /\ n.KindTag \in {"!!map", "!!seq"}
                /\ ~CarriesRecurseFalse(n.Comment)
                /\ n.Default = <<>>
        /\ doc.Kind = MappingNode =>
            \A m \in 1..RootPairs :
                LET n == parsed.node.Children[m]
                    v == RootValue(m)
                IN  /\ n.Children # <<>> =>
                        /\ ~CarriesRecurseFalse(RootKey(m).HeadComment)
                        /\ \/ v.Kind = MappingNode
                           \/ v.Kind = SequenceNode /\ ~Uniform(v.Content)
                    /\ (\/ CarriesRecurseFalse(RootKey(m).HeadComment)
                        \/ v.Kind = ScalarNode
                        \/ v.Kind = SequenceNode /\ Uniform(v.Content))
                        => n.Children = <<>>

C9_Witness ==
    /\ ParseOk /\ doc.Kind = MappingNode /\ RootPairs = 2
    /\ RootValue(1).Kind = SequenceNode
    /\ Len(RootValue(1).Content) = 2 /\ Uniform(RootValue(1).Content)
    /\ parsed.node.Children[1].Children = <<>>
    /\ parsed.node.Children[1].Default # <<>>

----------------------------------------------------------------------------
WrappedMapping(m) ==
    /\ NoRecurseDirective(RootKey(m).HeadComment)
    /\ RootValue(m).Kind = SequenceNode
    /\ Len(RootValue(m).Content) = 1
    /\ RootValue(m).Content[1].Kind = MappingNode

\* C10: every top-level node has the empty breadcrumb and every child of a
\* node N has N's anchor as its breadcrumb, also when the children come out
\* of a single-element sequence, whose mapping adds no node of its own.
C10_ChildrenCarryParentAnchor ==
    ParseOk =>
        /\ \A i \in 1..Len(parsed.node.Children) :
            parsed.node.Children[i].ParentBreadcrumb = <<>>
        /\ \A n \in Descendants(parsed.node) :
            \A i \in 1..Len(n.Children) :
                n.Children[i].ParentBreadcrumb = HTMLAnchor(n)
        /\ doc.Kind = MappingNode =>
            \A m \in 1..RootPairs :
                WrappedMapping(m) =>
                    [i \in 1..Len(parsed.node.Children[m].Children) |->
                        parsed.node.Children[m].Children[i].Key]
                      = KeysOf(RootValue(m).Content[1].Content)

C10_Witness ==
    /\ ParseOk /\ doc.Kind = MappingNode /\ RootPairs = 3
    /\ RootValue(2).Kind = MappingNode
    /\ Len(RootValue(2).Content) = 2
    /\ RootValue(2).Content[2].Kind = SequenceNode
    /\ Len(parsed.node.Children[2].Children[1].Children) = 2
    /\ parsed.node.Children[2].Children[1].Children[2].ParentBreadcrumb
         = <<"-", "a", "-", "a">>
====
